---- MODULE Spec2Model ----
(***************************************************************************)
(* Model of the course-catalog crawler (crawler.py), the URL filter        *)
(* (util.py) and the synonym-expanded full-text search (search.py).        *)
(*                                                                         *)
(* Spec        one run of crawler.crawl: catalog walk, detail visits,      *)
(*             upserts.                                                    *)
(* SpecUpsert  arbitrary sequences of crawler.upsert_course calls.         *)
(* SpecUrl     util.is_url_ok_to_follow applied to URLs built from parts.  *)
(* SpecSearch  search.search (build_fts_query, ranked query, fallback).    *)
(***************************************************************************)
EXTENDS Integers, Sequences, FiniteSets, TLC

VARIABLES
    \* ---- crawler.crawl / iterate_pages_and_collect_links
    pc,                 \* position of the running program
    catalog,            \* the site's catalog: pages of cards (the browser's world)
    pages,              \* args.pages, the configured page count N
    save_html,          \* args.save_html
    i,                  \* loop variable of the walker
    rendered,           \* index of the catalog page the browser shows (0: none)
    last_first_title,   \* walker local: the stored fingerprint
    links,              \* walker local / course_links: the link set
    tryOutcome,         \* how the try block of the current iteration ended
    extractions,        \* number of card extractions performed by the walker
    seen,               \* the catalog pages that were on screen at an extraction
    loadAttempts,       \* number of initial catalog loads attempted
    fingerprint_page,   \* the page that was on screen when last_first_title was stored
    queue,              \* links still to visit, in sorted order
    visits,             \* sequence of [link, outcome] of the detail loop
    visited,            \* crawl local: number of saved courses
    now,                \* clock used for last_crawled_at
    \* ---- the courses table (seen through the connection) and upsert_course
    courses,            \* set of rows of table courses
    nextId,             \* next course_id the table hands out
    upsertLog,          \* sequence of rows passed to upsert_course
    \* ---- util.is_url_ok_to_follow
    urlParts,           \* the pieces the input URL is made of
    url,                \* the input URL
    domain,             \* the input domain
    urlResult,          \* the values returned by the call: <<>>, then <<TRUE>> or <<FALSE>>
    \* ---- search.search
    interests,          \* the list of interest terms
    top,                \* the result limit
    vocab,              \* the terms / synonyms tables
    bm25,               \* whether the engine has the ranking function
    todo,               \* build_fts_query: the terms the loop has not taken yet
    groups,             \* build_fts_query local: the groups built so far
    match,              \* the match expression
    queries,            \* the SQL queries executed by search, in order
    searchResult,       \* rows returned by search
    spc,                \* position of search
    \* ---- compare.compare_texts
    textA,              \* argument a
    textB,              \* argument b
    cmpResult,          \* <<>> before the call, <<outcome>> after it
    \* ---- crawler.extract_course_link_from_card, called on its own
    card_el,            \* argument card_el
    cardLink            \* <<>> before the call, <<link or None>> after it

crawlVars  == <<pc, catalog, pages, save_html, i, rendered, last_first_title,
                links, tryOutcome, extractions, seen, loadAttempts,
                fingerprint_page, queue, visits, visited, now>>
tableVars  == <<courses, nextId, upsertLog>>
urlVars    == <<urlParts, url, domain, urlResult>>
searchVars == <<interests, top, vocab, bm25, todo, groups, match, queries,
                searchResult, spc>>
compareVars == <<textA, textB, cmpResult>>
cardVars   == <<card_el, cardLink>>
vars       == <<crawlVars, tableVars, urlVars, searchVars, compareVars, cardVars>>

(***************************************************************************)
(* Bounds of the model.                                                    *)
(***************************************************************************)
MaxPages == 3          \* args.pages ranges over 0..MaxPages
MaxUpserts == 3        \* length of an upsert_course call sequence (SpecUpsert)
MaxTerms == 2          \* length of the interest list (SpecSearch)
MaxTop == 2            \* the limit ranges over 1..MaxTop (SpecSearch)

None == "<None>"       \* Python's None / SQL NULL

(***************************************************************************)
(* Strings.  TLC evaluates Len, SubSeq and \o on strings.                  *)
(***************************************************************************)
Char(s, k) == SubSeq(s, k, k)

UpperChars == "ABCDEFGHIJKLMNOPQRSTUVWXYZ"
LowerChars == "abcdefghijklmnopqrstuvwxyz"

LowerChar(c) ==
    IF \E k \in 1..Len(UpperChars) : Char(UpperChars, k) = c
    THEN Char(LowerChars, CHOOSE k \in 1..Len(UpperChars) : Char(UpperChars, k) = c)
    ELSE c

RECURSIVE Lower(_)
Lower(s) == IF s = "" THEN "" ELSE LowerChar(Head(s)) \o Lower(Tail(s))

IsSpace(c) == c \in {" ", "\t", "\n"}

RECURSIVE LStrip(_)
LStrip(s) == IF s # "" /\ IsSpace(Head(s)) THEN LStrip(Tail(s)) ELSE s

RECURSIVE RStrip(_)
RStrip(s) ==
    IF s # "" /\ IsSpace(Char(s, Len(s))) THEN RStrip(SubSeq(s, 1, Len(s) - 1)) ELSE s

Strip(s) == RStrip(LStrip(s))

StartsWith(s, p) == Len(s) >= Len(p) /\ SubSeq(s, 1, Len(p)) = p
EndsWith(s, p) == Len(s) >= Len(p) /\ SubSeq(s, Len(s) - Len(p) + 1, Len(s)) = p
Min(S) == CHOOSE k \in S : \A j \in S : k <= j

\* index of the first occurrence of p in s at or after k, 0 when there is none
FindFrom(s, p, k) ==
    LET at == {j \in k..(Len(s) - Len(p) + 1) : SubSeq(s, j, j + Len(p) - 1) = p}
    IN IF at = {} THEN 0 ELSE Min(at)

Find(s, p) == FindFrom(s, p, 1)          \* str.find + 1
Contains(s, p) == Find(s, p) # 0         \* p in s

\* the order of str comparison, on the characters the model's URLs use
Alphabet == "#%-./0123456789:?@ABCDEFGHIJKLMNOPQRSTUVWXYZ_abcdefghijklmnopqrstuvwxyz"
Rank(c) == Find(Alphabet, c)

\* a < b: decided by the first position where they differ, else by length
StrLess(a, b) ==
    LET n == IF Len(a) < Len(b) THEN Len(a) ELSE Len(b)
        differ == {k \in 1..n : Char(a, k) # Char(b, k)}
    IN IF differ = {} THEN Len(a) < Len(b)
       ELSE Rank(Char(a, Min(differ))) < Rank(Char(b, Min(differ)))

\* sorted(S) for a set of strings
RECURSIVE Sorted(_)
Sorted(S) ==
    IF S = {} THEN <<>>
    ELSE LET m == CHOOSE x \in S : \A y \in S \ {x} : StrLess(x, y)
         IN <<m>> \o Sorted(S \ {m})

(***************************************************************************)
(* The site: catalog pages of cards, and the detail page behind each link. *)
(* A card is what the selectors of crawler.py see of one                   *)
(* <li class="item-programa ais-Hits-item">: its div.card-type (if any),   *)
(* its b.card-title inside .card-body (if any) and its <a href> anchors in *)
(* document order, each inside .card-body or not.                          *)
(***************************************************************************)
START_URL == "https://educacionvirtual.javeriana.edu.co/nuestros-programas-nuevo"

Anchor(inBody, href) == [inBody |-> inBody, href |-> href]
Card(typeText, title, anchors) == [typeText |-> typeText, title |-> title, anchors |-> anchors]
TitleLink(href) == <<Anchor(FALSE, href), Anchor(TRUE, href)>>   \* image anchor, title anchor

CatalogThree ==
    << << Card("Curso", "Analitica", TitleLink("/c1")),
          Card(" Curso ", "Bioetica", TitleLink("/c2")),
          Card("Diplomado", "Derecho", TitleLink("/d1")) >>,
       << Card("Curso", "Excel", TitleLink("/c3")),
          Card("Curso", "Finanzas", TitleLink("/c4")),
          Card("Maestria", "Gerencia", TitleLink("/d2")) >>,
       << Card("Curso", "Historia", TitleLink("/c5")),
          Card("Curso", "Ingles", TitleLink("/c6")),
          Card("Especializacion", "Java", TitleLink("/d3")) >> >>

\* page 2 opens with the same card as page 1; cards without type label, without
\* anchor, with an empty href, with an absolute href, with an upper-case label
CatalogMixed ==
    << << Card("Curso", "Analitica", TitleLink("/c1")),
          Card(None, "Bioetica", TitleLink("/x1")),
          Card("CURSO VIRTUAL", None, <<Anchor(FALSE, " c2 ")>>) >>,
       << Card("Curso", "Analitica", TitleLink("/c1")),
          Card("Curso", "Costos", <<Anchor(FALSE, "/c7"), Anchor(TRUE, "")>>),
          Card("curso corto", "Dibujo", <<>>),
          Card("Curso", "Excel",
               <<Anchor(TRUE, "https://educacionvirtual.javeriana.edu.co/c2")>>) >> >>

CatalogSolo ==
    << << Card("Diplomado", None, TitleLink("/d1")),
          Card("Curso", "Bioetica", TitleLink("/c2")) >> >>

Catalogs == {CatalogThree, CatalogMixed, CatalogSolo}

\* urllib.parse.urljoin(base, href) for an absolute, a root-relative or a
\* document-relative href and an http(s) base
\* scheme://netloc of an absolute URL
OriginEnd(base, slash) == IF slash = 0 THEN base ELSE SubSeq(base, 1, slash - 1)
Origin(base) == OriginEnd(base, FindFrom(base, "/", Find(base, "://") + 3))

RECURSIVE DirName(_)
DirName(path) ==
    IF path = "" \/ Char(path, Len(path)) = "/" THEN path
    ELSE DirName(SubSeq(path, 1, Len(path) - 1))

urljoin(base, href) ==
    IF Contains(href, "://") THEN href
    ELSE IF StartsWith(href, "/") THEN Origin(base) \o href
    ELSE LET path == SubSeq(base, Len(Origin(base)) + 1, Len(base))
             dir == IF DirName(path) = "" THEN "/" ELSE DirName(path)
         IN Origin(base) \o dir \o href

(***************************************************************************)
(* Card extraction.                                                        *)
(***************************************************************************)
\* _first_card_title_text: select_one over the whole page, so the first card
\* that has a title element; "" when no card has one
RECURSIVE first_card_title_text(_)
first_card_title_text(cards) ==
    IF cards = <<>> THEN ""
    ELSE IF Head(cards).title # None THEN Strip(Head(cards).title)
    ELSE first_card_title_text(Tail(cards))

AnyCardIsCourse(card) == TRUE

AnyLabelIsCourse(card) == card.typeText # None

\* is_course_card: the div.card-type exists and its lower-cased text has "curso"
is_course_card(card) ==
    IF card.typeText = None THEN FALSE
    ELSE Contains(Lower(Strip(card.typeText)), "curso")

FirstAnchorAnywhere(withHref) == withHref

\* select_one(".card-body a[href]") or select_one("a[href]"), as the list
\* whose head is the selected anchor
SelectAnchor(withHref) ==
    LET inBody == SelectSeq(withHref, LAMBDA x : x.inBody)
    IN IF inBody # <<>> THEN inBody ELSE withHref

extract_course_link_from_card(card, base_url) ==
    LET \* a[href]: the anchors that carry an href attribute
        withHref == SelectSeq(card.anchors, LAMBDA x : x.href # None)
        found == SelectAnchor(withHref)
    IN IF found = <<>> THEN None
       ELSE LET href == Strip(Head(found).href)
            IN IF href = "" THEN None ELSE urljoin(base_url, href)

\* the body of the walker's inner loop (for card in cards), as a fold
RECURSIVE CollectLinks(_, _, _)
CollectLinks(cards, base_url, acc) ==
    IF cards = <<>> THEN acc
    ELSE LET card == Head(cards)
             link == IF is_course_card(card)
                     THEN extract_course_link_from_card(card, base_url) ELSE None
         IN CollectLinks(Tail(cards), base_url,
                         IF link # None THEN acc \cup {link} ELSE acc)

\* the function f itself (f @@ <<>> = f), with its values computed once
Table(f) == f @@ <<>>

\* what the loop over the cards of a page adds to the link set, per catalog page
PageLinks ==
    Table([c \in Catalogs |->
             Table([k \in DOMAIN c |-> CollectLinks(c[k], START_URL, {})])])

AllLinks == UNION {UNION {PageLinks[c][k] : k \in DOMAIN c} : c \in Catalogs}

\* sorted(course_links), per link set
SortedLinks == Table([S \in SUBSET AllLinks |-> Sorted(S)])

(***************************************************************************)
(* The courses table and upsert_course.                                    *)
(***************************************************************************)
Fields == {"title", "category", "modality", "duration", "price", "start_date",
           "location", "value_proposal", "tutoria", "description", "raw_html",
           "last_crawled_at"}

\* INSERT OR IGNORE: a row whose url is already there is left as it was
InsertOrIgnore(table, id, row) ==
    IF \E r \in table : r.url = row.url THEN table
    ELSE table \cup {[f \in {"course_id", "url"} \cup Fields |->
                        IF f = "course_id" THEN id ELSE row[f]]}

\* INSERT ... ON CONFLICT(url) DO UPDATE SET <the twelve fields> = excluded.<field>
UpsertedTable(table, id, row) ==
    IF \E r \in table : r.url = row.url
    THEN {IF r.url = row.url
          THEN [f \in {"course_id", "url"} \cup Fields |->
                  IF f \in Fields THEN row[f] ELSE r[f]]
          ELSE r : r \in table}
    ELSE table \cup {[f \in {"course_id", "url"} \cup Fields |->
                        IF f = "course_id" THEN id ELSE row[f]]}

\* upsert_course(con, row): execute the statement and commit
upsert_course(row) ==
    /\ courses' = UpsertedTable(courses, nextId, row)
    /\ nextId' = IF \E r \in courses : r.url = row.url THEN nextId ELSE nextId + 1
    /\ upsertLog' = Append(upsertLog, row)

(***************************************************************************)
(* Detail pages.  A page is what the selectors of parse_course_detail see. *)
(***************************************************************************)
DetailPage(h2main, h1bold, h1h2, tutoria) ==
    [h2main |-> h2main, h1bold |-> h1bold, h1h2 |-> h1h2, price |-> "$ 100",
     nivel |-> "Basico", duracion |-> "40 horas", tutoria |-> tutoria,
     inicio |-> None, proposal |-> "Aprende", presentation |-> None]

\* the page the site serves for a link
DetailPageOf(link) ==
    IF EndsWith(link, "/c2") THEN DetailPage(None, None, None, "Si")        \* no heading
    ELSE IF EndsWith(link, "/c3") THEN DetailPage(None, None, "Excel", None) \* h1/h2 only
    ELSE IF EndsWith(link, "/c4") THEN DetailPage(None, "", "  ", "Si")     \* empty headings
    ELSE DetailPage("Curso " \o SubSeq(link, Len(link) - 1, Len(link)), None, "Otro", "Si")

text_or_none(el) == IF el = None THEN None ELSE Strip(el)

parse_course_detail(page, link) ==
    LET title_el == IF page.h2main # None THEN page.h2main
                    ELSE IF page.h1bold # None THEN page.h1bold
                    ELSE page.h1h2
        t == text_or_none(title_el)
    IN [url |-> link,
        title |-> IF t = None THEN "" ELSE t,
        category |-> text_or_none(page.nivel),
        modality |-> None,
        duration |-> text_or_none(page.duracion),
        price |-> text_or_none(page.price),
        start_date |-> text_or_none(page.inicio),
        location |-> None,
        value_proposal |-> text_or_none(page.proposal),
        tutoria |-> text_or_none(page.tutoria),
        description |-> text_or_none(page.presentation)]

\* parse_course_detail(detail_html, link) of the page served for each link
ParsedDetail == Table([l \in AllLinks |-> parse_course_detail(DetailPageOf(l), l)])

\* data["raw_html"], data["last_crawled_at"] added by crawl
WithCrawlFields(data, html, at) ==
    [f \in {"url"} \cup Fields |->
        IF f = "raw_html" THEN html
        ELSE IF f = "last_crawled_at" THEN at
        ELSE data[f]]

(***************************************************************************)
(* crawler.crawl: the pagination walker, then the detail loop.             *)
(***************************************************************************)
IdleUrl    == /\ urlParts = <<>> /\ url = "" /\ domain = "" /\ urlResult = <<>>
IdleSearch == /\ interests = <<>> /\ top = 0 /\ vocab = <<>> /\ bm25 = FALSE
              /\ todo = <<>> /\ groups = <<>> /\ match = "" /\ queries = <<>>
              /\ searchResult = <<>> /\ spc = "idle"
IdleCompare == /\ textA = "" /\ textB = "" /\ cmpResult = <<>>
IdleCard   == /\ card_el = <<>> /\ cardLink = <<>>
IdleCrawl  == /\ pc = "idle" /\ catalog = <<>> /\ pages = 0 /\ save_html = FALSE
              /\ i = 0 /\ rendered = 0 /\ last_first_title = "" /\ links = {}
              /\ tryOutcome = "none" /\ extractions = 0 /\ seen = {}
              /\ loadAttempts = 0 /\ fingerprint_page = 0
              /\ queue = <<>> /\ visits = <<>> /\ visited = 0 /\ now = 0

\* crawl after init_db and open_driver, about to call the walker
Init ==
    /\ pc = "load"
    /\ catalog \in Catalogs
    /\ pages \in 0..MaxPages
    /\ save_html \in BOOLEAN
    /\ i = 0 /\ rendered = 0 /\ last_first_title = "" /\ links = {}
    /\ tryOutcome = "none" /\ extractions = 0 /\ seen = {} /\ loadAttempts = 0
    /\ fingerprint_page = 0
    /\ queue = <<>> /\ visits = <<>> /\ visited = 0 /\ now = 0
    /\ courses = {} /\ nextId = 1 /\ upsertLog = <<>>
    /\ IdleUrl /\ IdleSearch /\ IdleCompare /\ IdleCard

WalkerLocals == <<i, rendered, last_first_title, links, tryOutcome, extractions, seen,
                  fingerprint_page>>
DetailLocals == <<queue, visits, visited, now>>
CrawlArgs == <<catalog, pages, save_html>>

LoopStopsOneEarly(k, n) == k < n

\* range(1, pages + 1) has a next element
LoopContinues(k, n) == k <= n

\* driver.get(start_url); _wait_results_loaded(wait): the catalog shows page 1
WalkLoadOk ==
    /\ pc = "load"
    /\ loadAttempts' = loadAttempts + 1
    /\ rendered' = 1
    /\ links' = {}
    /\ last_first_title' = first_card_title_text(catalog[1])
    /\ fingerprint_page' = 1
    /\ i' = 1
    /\ pc' = IF LoopContinues(1, pages) THEN "try" ELSE "return"
    /\ UNCHANGED <<tryOutcome, extractions, seen, CrawlArgs, DetailLocals,
                   tableVars, urlVars, searchVars, compareVars, cardVars>>

LoadTimeoutSwallowed == "return"

\* where crawl goes when the walker's set-up raises: nothing catches it, the
\* finally clause of crawl closes driver and connection
AfterLoadTimeout == "failed"

\* the bounded wait for a first card times out (TimeoutException)
WalkLoadTimeout ==
    /\ pc = "load"
    /\ loadAttempts' = loadAttempts + 1
    /\ pc' = AfterLoadTimeout
    /\ UNCHANGED <<WalkerLocals, CrawlArgs, DetailLocals, tableVars, urlVars, searchVars, compareVars, cardVars>>

TryOutcomes == {"no_control", "selected_timeout", "fingerprint_timeout", "ok"}

AfterTryNoCatch(outcome) == IF outcome = "ok" THEN "extract" ELSE "failed"

\* where the walker goes after the try block of an iteration: the except
\* clause swallows every Exception, so always on to the extraction
AfterTry(outcome) == "extract"

FingerprintAlwaysRefreshed(outcome, old, current) == current

\* the fingerprint the try block leaves behind
FingerprintAfterTry(outcome, old, current) == IF outcome = "ok" THEN current ELSE old

\* The try block of iteration i.  r is the page the browser shows when the
\* block ends: the old one, or page i if the click took effect.
TryAdvance ==
    /\ pc = "try"
    /\ \E outcome \in TryOutcomes :
       \E r \in {rendered} \cup (IF i <= Len(catalog) THEN {i} ELSE {}) :
          /\ outcome = "no_control" => r = rendered
          /\ outcome # "no_control" => i <= Len(catalog)
          /\ outcome = "fingerprint_timeout" =>
                first_card_title_text(catalog[r]) = last_first_title
          /\ outcome = "ok" => first_card_title_text(catalog[r]) # last_first_title
          /\ tryOutcome' = outcome
          /\ rendered' = r
          /\ last_first_title' =
                FingerprintAfterTry(outcome, last_first_title,
                                    first_card_title_text(catalog[r]))
          /\ fingerprint_page' = IF outcome = "ok" THEN r ELSE fingerprint_page
          /\ pc' = AfterTry(outcome)
    /\ UNCHANGED <<i, links, extractions, seen, loadAttempts, CrawlArgs, DetailLocals,
                   tableVars, urlVars, searchVars, compareVars, cardVars>>

\* get_cards_on_page and the loop over the cards, then the next i
Extract ==
    /\ pc = "extract"
    /\ links' = links \cup PageLinks[catalog][rendered]
    /\ extractions' = extractions + 1
    /\ seen' = seen \cup {rendered}
    /\ i' = i + 1
    /\ pc' = IF LoopContinues(i + 1, pages) THEN "try" ELSE "return"
    /\ UNCHANGED <<rendered, last_first_title, fingerprint_page, tryOutcome,
                   loadAttempts, CrawlArgs, DetailLocals, tableVars, urlVars, searchVars, compareVars, cardVars>>

\* return links; crawl: visited = 0, for link in sorted(course_links)
WalkReturn ==
    /\ pc = "return"
    /\ queue' = SortedLinks[links]
    /\ visited' = 0
    /\ pc' = "detail"
    /\ UNCHANGED <<WalkerLocals, loadAttempts, visits, now, CrawlArgs,
                   tableVars, urlVars, searchVars, compareVars, cardVars>>

NeverSkips(data) == FALSE

\* if not data["title"]: the record is skipped
SkipsRecord(data) == data.title = ""

VisitErrorAborts == "failed"

\* where the detail loop goes when a visit raises: the except clause of the
\* loop body logs it and the for loop takes the next link
AfterVisitError == "detail"

VisitCommon(outcome) ==
    /\ visits' = Append(visits, [link |-> Head(queue), outcome |-> outcome])
    /\ queue' = Tail(queue)
    /\ UNCHANGED <<WalkerLocals, loadAttempts, CrawlArgs, urlVars, searchVars, compareVars, cardVars>>

\* driver.get(link) or driver.page_source raises
VisitGetRaises ==
    /\ pc = "detail" /\ queue # <<>>
    /\ pc' = AfterVisitError
    /\ VisitCommon("get_raises")
    /\ UNCHANGED <<visited, now, tableVars>>

\* the page is fetched and parsed; a record without title is skipped,
\* the others go to upsert_course
VisitParsed ==
    /\ pc = "detail" /\ queue # <<>>
    /\ LET link == Head(queue)
           detail_html == "<html " \o link \o ">"
           data == WithCrawlFields(ParsedDetail[link],
                                   IF save_html THEN detail_html ELSE None,
                                   now + 1)
       IN /\ now' = now + 1
          /\ IF SkipsRecord(data)
             THEN /\ VisitCommon("no_title")
                  /\ pc' = "detail"
                  /\ UNCHANGED <<visited, tableVars>>
             ELSE \/ /\ upsert_course(data)
                     /\ visited' = visited + 1
                     /\ pc' = "detail"
                     /\ VisitCommon("saved")
                  \/ \* the INSERT statement raises (sqlite3.Error): nothing is written
                     /\ upsertLog' = Append(upsertLog, data)
                     /\ pc' = AfterVisitError
                     /\ VisitCommon("upsert_raises")
                     /\ UNCHANGED <<visited, courses, nextId>>

\* the for loop is exhausted; finally: driver.quit(), con.close()
DetailDone ==
    /\ pc = "detail" /\ queue = <<>>
    /\ pc' = "done"
    /\ UNCHANGED <<WalkerLocals, loadAttempts, DetailLocals, CrawlArgs,
                   tableVars, urlVars, searchVars, compareVars, cardVars>>

Next ==
    \/ WalkLoadOk
    \/ WalkLoadTimeout
    \/ TryAdvance
    \/ Extract
    \/ WalkReturn
    \/ VisitGetRaises
    \/ VisitParsed
    \/ DetailDone

Spec == Init /\ [][Next]_vars

\* the program is sequential and every call it makes is bounded by a timeout:
\* a step that can be taken is taken
FairSpec == Init /\ [][Next]_vars /\ WF_vars(Next)

(***************************************************************************)
(* Properties of the walker and of crawl (specifications Spec, FairSpec).  *)
(***************************************************************************)
Timeouts == {"no_control", "selected_timeout", "fingerprint_timeout"}

\* the absolute links of the course cards of a page
CourseLinksOf(page) ==
    {extract_course_link_from_card(page[k], START_URL) :
        k \in {j \in DOMAIN page : is_course_card(page[j])}} \ {None}

\* C1: when the try block of iteration i ends in a timeout (control not
\* found, selected-state wait, fingerprint wait), the walker goes on to the
\* extraction of the same iteration, and that extraction adds the course
\* links of the page on screen to the link set and moves to iteration i+1.
C1_TimeoutStillExtracts ==
    [][ /\ (pc = "try" /\ tryOutcome' \in Timeouts) =>
              (pc' = "extract" /\ i' = i /\ links' = links)
        /\ (pc = "extract" /\ tryOutcome \in Timeouts) =>
              /\ links' = links \cup CourseLinksOf(catalog[rendered])
              /\ extractions' = extractions + 1
              /\ i' = i + 1
              /\ pc' = IF i + 1 <= pages THEN "try" ELSE "return" ]_vars

\* iteration 2 timed out, was extracted, and the walker is in iteration 3
C1_Witness ==
    /\ pc = "try" /\ i = 3 /\ tryOutcome = "selected_timeout"
    /\ extractions = 2 /\ links # {}

\* C2: once the initial load succeeded the walker returns, having done
\* exactly N iterations with one extraction each, whatever the waits did;
\* with N = 0 it returns the empty set.
C2_WalkerTerminates ==
    /\ (pc \in {"try", "return"} /\ extractions = 0) ~>
            (pc = "detail" /\ extractions = pages /\ i = pages + 1)
    /\ [](pc \in {"return", "detail", "done"} =>
            /\ extractions = pages /\ i = pages + 1
            /\ (pages = 0 => links = {}))

\* a walk of 3 pages returned after a timeout (iteration 1) and a success
C2_Witness ==
    /\ pc = "detail" /\ pages = 3 /\ extractions = 3 /\ tryOutcome = "ok"
    /\ seen = {1, 2}

\* C3: a timeout of the initial wait is fatal: it is the only load attempt,
\* nothing is extracted, visited or upserted, and the run ends there.
C3_InitialTimeoutFatal ==
    /\ [][(pc = "load" /\ rendered' = 0) => pc' = "failed"]_vars
    /\ [](pc = "failed" =>
            /\ loadAttempts = 1 /\ extractions = 0 /\ links = {}
            /\ visits = <<>> /\ upsertLog = <<>> /\ courses = {}
            /\ ~ENABLED Next)

C3_Witness == pc = "failed" /\ loadAttempts = 1 /\ rendered = 0

SixLinks == {"https://educacionvirtual.javeriana.edu.co/c" \o d :
                d \in {"1", "2", "3", "4", "5", "6"}}

\* C4 as stated: a walk of N = 3 over three pages of 2 course cards and
\* 1 other card each, all URLs distinct, returns exactly 6 links.
C4_Original ==
    (pc \in {"detail", "done"} /\ catalog = CatalogThree /\ pages = 3) =>
        Cardinality(links) = 6

\* C4 amended: that walk returns the 2 course links of every page that was
\* on screen at one of its 3 extractions, and nothing else: exactly 6 links
\* when each of the 3 pages was on screen at an extraction, fewer when a
\* timed-out advance left an earlier page on screen.
C4_SixWhenEveryPageSeen ==
    (pc \in {"detail", "done"} /\ catalog = CatalogThree /\ pages = 3) =>
        /\ links \subseteq SixLinks
        /\ Cardinality(links) = 2 * Cardinality(seen)
        /\ (seen = {1, 2, 3} => links = SixLinks)

C4_Witness ==
    /\ pc = "detail" /\ catalog = CatalogThree /\ pages = 3
    /\ seen = {1, 2, 3} /\ Cardinality(links) = 6

\* C5: under any sequence of upsert_course calls the table has one row per
\* upserted url and no other row, that row carries every field value of the
\* latest call for its url, and a call leaves the rows of other urls as
\* they were.
LastCallFor(u) ==
    upsertLog[CHOOSE k \in DOMAIN upsertLog :
                /\ upsertLog[k].url = u
                /\ \A j \in DOMAIN upsertLog : upsertLog[j].url = u => j <= k]

C5_UpsertByUrl ==
    /\ [](/\ \A r1, r2 \in courses : r1.url = r2.url => r1 = r2
          /\ {r.url : r \in courses} = {upsertLog[k].url : k \in DOMAIN upsertLog}
          /\ \A r \in courses : \A f \in Fields : r[f] = LastCallFor(r.url)[f])
    /\ [][upsertLog' # upsertLog =>
            \A r \in courses :
                r.url # upsertLog'[Len(upsertLog')].url => r \in courses']_vars

\* the same url was upserted twice with different values: one row
C5_Witness ==
    /\ Len(upsertLog) = 2
    /\ upsertLog[1].url = upsertLog[2].url /\ upsertLog[1] # upsertLog[2]
    /\ Cardinality(courses) = 1
    /\ \A r \in courses : r.title = upsertLog[2].title

\* C6: in a crawl run every row written has a non-empty title: a detail
\* page whose parsed title is empty is skipped without a call of
\* upsert_course.
C6_TitleNeverEmpty ==
    /\ \A r \in courses : r.title # ""
    /\ \A k \in DOMAIN upsertLog : upsertLog[k].title # ""
    /\ \A k \in DOMAIN visits :
          ParsedDetail[visits[k].link].title = "" =>
              /\ visits[k].outcome \in {"no_title", "get_raises"}
              /\ \A j \in DOMAIN upsertLog : upsertLog[j].url # visits[k].link

\* a page without title was skipped and another page was saved
C6_Witness ==
    /\ \E k \in DOMAIN visits : visits[k].outcome = "no_title"
    /\ \E k \in DOMAIN visits : visits[k].outcome = "saved"
    /\ courses # {}

\* C7: a failure while visiting, parsing or persisting a link is caught and
\* the loop takes the next link: every collected link is attempted exactly
\* once, in sorted order, and the record of every link that was saved is in
\* the table whatever happened to the other links.
C7_FailureSkipsOneLink ==
    /\ [][(pc = "detail" /\ queue # <<>>) =>
            /\ pc' = "detail" /\ queue' = Tail(queue)
            /\ Len(visits') = Len(visits) + 1
            /\ visits'[Len(visits')].link = Head(queue)
            /\ \A r \in courses : r.url # Head(queue) => r \in courses']_vars
    /\ [](pc = "done" =>
            /\ [k \in DOMAIN visits |-> visits[k].link] = SortedLinks[links]
            /\ Len(visits) = Cardinality(links)
            /\ \A k \in DOMAIN visits :
                  visits[k].outcome = "saved" <=>
                      \E r \in courses : r.url = visits[k].link)

\* the run ended; a link failed and a later link was saved
C7_Witness ==
    /\ pc = "done"
    /\ \E j, k \in DOMAIN visits :
          /\ j < k
          /\ visits[j].outcome \in {"get_raises", "upsert_raises"}
          /\ visits[k].outcome = "saved"

(***************************************************************************)
(* SpecUpsert: a caller makes up to MaxUpserts calls of upsert_course on   *)
(* an empty table.                                                         *)
(***************************************************************************)
RowOf(u, tag, title, at) ==
    [f \in {"url"} \cup Fields |->
        IF f = "url" THEN u
        ELSE IF f = "title" THEN title
        ELSE IF f = "last_crawled_at" THEN at
        ELSE IF tag = "" THEN None
        ELSE f \o tag]

UpsertRows ==
    {RowOf(u, x[1], x[2], x[3]) :
        u \in {"https://ev.co/a", "https://ev.co/b"},
        x \in {<<"-1", "Uno", 1>>, <<"-2", "Dos", 2>>, <<"", "", 3>>}}

InitUpsert ==
    /\ courses = {} /\ nextId = 1 /\ upsertLog = <<>>
    /\ IdleCrawl /\ IdleUrl /\ IdleSearch /\ IdleCompare /\ IdleCard

UpsertCall ==
    /\ Len(upsertLog) < MaxUpserts
    /\ \E row \in UpsertRows : upsert_course(row)
    /\ UNCHANGED <<crawlVars, urlVars, searchVars, compareVars, cardVars>>

SpecUpsert == InitUpsert /\ [][UpsertCall]_vars

(***************************************************************************)
(* util.is_url_ok_to_follow, with urllib.parse.urlparse on the URL text.   *)
(***************************************************************************)
Digits == "0123456789"
IsAlpha(c) == Contains(UpperChars, c) \/ Contains(LowerChars, c)
IsAlnum(c) == IsAlpha(c) \/ Contains(Digits, c)
IsSchemeChar(c) == IsAlnum(c) \/ Contains("+-.", c)

\* the first index >= k of s holding one of the characters of cs, else Len(s) + 1
FirstOf(s, cs, k) ==
    LET at == {j \in k..Len(s) : Contains(cs, Char(s, j))}
    IN IF at = {} THEN Len(s) + 1 ELSE Min(at)

\* urllib.parse.urlparse(url): scheme, netloc and path (query and fragment cut off)
urlparse(u) ==
    LET colon == Find(u, ":")
        hasScheme == /\ colon > 1
                     /\ IsAlpha(Char(u, 1))
                     /\ \A k \in 1..(colon - 1) : IsSchemeChar(Char(u, k))
        rest == IF hasScheme THEN SubSeq(u, colon + 1, Len(u)) ELSE u
        hasNetloc == StartsWith(rest, "//")
        delim == FirstOf(rest, "/?#", 3)
        afterNetloc == IF hasNetloc THEN SubSeq(rest, delim, Len(rest)) ELSE rest
    IN [scheme |-> IF hasScheme THEN Lower(SubSeq(u, 1, colon - 1)) ELSE "",
        netloc |-> IF hasNetloc THEN SubSeq(rest, 3, delim - 1) ELSE "",
        path |-> SubSeq(afterNetloc, 1, FirstOf(afterNetloc, "?#", 1) - 1)]

OnlyHttp(u) == u # "" /\ urlparse(u).scheme = "http" /\ urlparse(u).netloc # ""

is_absolute_url(u) ==
    IF u = "" THEN FALSE
    ELSE urlparse(u).scheme \in {"http", "https"} /\ urlparse(u).netloc # ""

\* the last non-empty segment of path.split("/"), "" when there is none
RECURSIVE LastSegment(_)
LastSegment(path) ==
    IF path = "" THEN ""
    ELSE IF Char(path, Len(path)) = "/" THEN LastSegment(SubSeq(path, 1, Len(path) - 1))
    ELSE LET slashes == {k \in 1..Len(path) : Char(path, k) = "/"}
         IN IF slashes = {} THEN path
            ELSE SubSeq(path, (CHOOSE k \in slashes : \A j \in slashes : j <= k) + 1,
                        Len(path))

\* _FILENAME_EXT_PATTERN = \.([A-Za-z0-9]+)$ searched in the last segment
filename_extension(path) ==
    LET last == LastSegment(path)
        dots == {k \in 1..(Len(last) - 1) :
                    /\ Char(last, k) = "."
                    /\ \A j \in (k + 1)..Len(last) : IsAlnum(Char(last, j))}
    IN IF dots = {} THEN "" ELSE Lower(SubSeq(last, Min(dots), Len(last)))

is_url_ok_to_follow(u, d) ==
    IF ~is_absolute_url(u) THEN FALSE
    ELSE IF Contains(u, "@") \/ StartsWith(Lower(u), "mailto:") THEN FALSE
    ELSE LET netloc == Lower(urlparse(u).netloc)
             dom == Lower(d)
             path == IF urlparse(u).path = "" THEN "/" ELSE urlparse(u).path
             ext == filename_extension(path)
         IN IF ~(netloc = dom \/ EndsWith(netloc, "." \o dom)) THEN FALSE
            ELSE IF EndsWith(path, "/") THEN TRUE
            ELSE IF ext = "" THEN TRUE
            ELSE IF ext = ".html" THEN TRUE
            ELSE FALSE

(***************************************************************************)
(* SpecUrl: one call of is_url_ok_to_follow on a URL put together from a   *)
(* scheme, an authority, a path and a query or fragment.  Each piece       *)
(* carries what it is, so that the answer can be judged against the parts  *)
(* rather than against the parse.                                          *)
(***************************************************************************)
SchemePieces ==
    { [text |-> "", scheme |-> ""],
      [text |-> "http:", scheme |-> "http"],
      [text |-> "https:", scheme |-> "https"],
      [text |-> "HTTP:", scheme |-> "http"],
      [text |-> "ftp:", scheme |-> "ftp"],
      [text |-> "mailto:", scheme |-> "mailto"] }

AuthorityPieces ==
    { [text |-> "", host |-> "", port |-> "", at |-> FALSE],
      [text |-> "//", host |-> "", port |-> "", at |-> FALSE],
      [text |-> "//d.co", host |-> "d.co", port |-> "", at |-> FALSE],
      [text |-> "//w.d.co", host |-> "w.d.co", port |-> "", at |-> FALSE],
      [text |-> "//W.D.Co", host |-> "W.D.Co", port |-> "", at |-> FALSE],
      [text |-> "//xd.co", host |-> "xd.co", port |-> "", at |-> FALSE],
      [text |-> "//e.org", host |-> "e.org", port |-> "", at |-> FALSE],
      [text |-> "//u@d.co", host |-> "d.co", port |-> "", at |-> TRUE],
      [text |-> "//d.co:80", host |-> "d.co", port |-> ":80", at |-> FALSE] }

\* kind: "slash" the path ends in "/", "noext" its file name has no extension,
\* "html" it ends in ".html", "other" anything else
PathPieces ==
    { [text |-> "", kind |-> "noext", at |-> FALSE],
      [text |-> "/", kind |-> "slash", at |-> FALSE],
      [text |-> "/a", kind |-> "noext", at |-> FALSE],
      [text |-> "/a.html", kind |-> "html", at |-> FALSE],
      [text |-> "/b/a.c.html", kind |-> "html", at |-> FALSE],
      [text |-> "/a.pdf", kind |-> "other", at |-> FALSE],
      [text |-> "/a.HTML", kind |-> "other", at |-> FALSE],
      [text |-> "/a.pdf/", kind |-> "slash", at |-> FALSE],
      [text |-> "/a.pdf/b", kind |-> "noext", at |-> FALSE],
      [text |-> "/a@b", kind |-> "noext", at |-> TRUE] }

TailPieces ==
    { [text |-> "", at |-> FALSE],
      [text |-> "?q=x.pdf", at |-> FALSE],
      [text |-> "#f.pdf", at |-> FALSE],
      [text |-> "?m=a@b", at |-> TRUE] }

Domains == {"d.co", "D.co"}

InitUrl ==
    /\ urlParts \in [scheme : SchemePieces, authority : AuthorityPieces,
                     path : PathPieces, tail : TailPieces]
    /\ url = urlParts.scheme.text \o urlParts.authority.text
                \o urlParts.path.text \o urlParts.tail.text
    /\ domain \in Domains
    /\ urlResult = <<>>
    /\ courses = {} /\ nextId = 1 /\ upsertLog = <<>>
    /\ IdleCrawl /\ IdleSearch /\ IdleCompare /\ IdleCard

IsUrlOkCall ==
    /\ urlResult = <<>>
    /\ urlResult' = <<is_url_ok_to_follow(url, domain)>>
    /\ UNCHANGED <<urlParts, url, domain, crawlVars, tableVars, searchVars, compareVars, cardVars>>

SpecUrl == InitUrl /\ [][IsUrlOkCall]_vars

\* the parts of the URL, as the claim speaks of them
HostInDomain(host) ==
    \/ Lower(host) = Lower(domain)
    \/ EndsWith(Lower(host), "." \o Lower(domain))
PageLikePath == urlParts.path.kind \in {"slash", "noext", "html"}
MissingSchemeOrHost == urlParts.scheme.scheme = "" \/ urlParts.authority.host = ""
HasAt == urlParts.authority.at \/ urlParts.path.at \/ urlParts.tail.at

RECURSIVE Join(_, _)
Join(q, sep) ==
    IF Len(q) = 0 THEN ""
    ELSE IF Len(q) = 1 THEN q[1]
    ELSE q[1] \o sep \o Join(Tail(q), sep)

\* the orders in which a set can be iterated
Orderings(S) ==
    {q \in [1..Cardinality(S) -> S] : \A a, b \in 1..Cardinality(S) : a # b => q[a] # q[b]}

\* get_synonyms(con, term): the term row is found by lower(term) = t, its
\* synonyms, when not empty, are trimmed and lower-cased
get_synonyms(v, term) ==
    LET t == Lower(Strip(term))
        rows == {r \in v.terms : Lower(r.term) = t}
    IN IF rows = {} THEN {}
       ELSE LET term_id == Min({r.term_id : r \in rows})
            IN {Lower(Strip(x.synonym)) :
                    x \in {y \in v.synonyms :
                            y.term_id = term_id /\ y.synonym \notin {None, ""}}}

BlankIsATerm(t) == FALSE

\* if not t: continue
IsBlank(t) == t = ""

\* f'"{p}"' if " " in p else p
Quoted(part) == IF Contains(part, " ") THEN "\"" \o part \o "\"" ELSE part

\* the parts of the group of term t (t already trimmed)
Parts(v, t) == {Lower(t)} \cup {Lower(x) : x \in get_synonyms(v, t)}

\* "(" + " OR ".join(parts_q) + ")" for the parts taken in the given order
GroupText(order) ==
    "(" \o Join([k \in 1..Len(order) |-> Quoted(order[k])], " OR ") \o ")"

\* one iteration of for t in terms; the set of parts is iterated in some order
BuildGroup ==
    /\ spc = "build" /\ todo # <<>>
    /\ todo' = Tail(todo)
    /\ LET t == Strip(Head(todo))
       IN IF IsBlank(t) THEN groups' = groups
          ELSE \E order \in Orderings(Parts(vocab, t)) :
                  groups' = Append(groups, GroupText(order))
    /\ UNCHANGED <<interests, top, vocab, bm25, match, queries, searchResult, spc,
                   crawlVars, tableVars, urlVars, compareVars, cardVars>>

\* return " OR ".join(groups) if groups else ""; search: if not match: return []
BuildReturn ==
    /\ spc = "build" /\ todo = <<>>
    /\ match' = Join(groups, " OR ")
    /\ spc' = IF match' = "" THEN "returned" ELSE "ranked"
    /\ UNCHANGED <<interests, top, vocab, bm25, todo, groups, queries, searchResult,
                   crawlVars, tableVars, urlVars, compareVars, cardVars>>

(***************************************************************************)
(* The full-text engine: which rows an expression matches, and the two     *)
(* queries of search.                                                      *)
(***************************************************************************)
\* s.split(sep)
RECURSIVE Split(_, _)
Split(str, sep) ==
    IF Find(str, sep) = 0 THEN <<str>>
    ELSE <<SubSeq(str, 1, Find(str, sep) - 1)>>
            \o Split(SubSeq(str, Find(str, sep) + Len(sep), Len(str)), sep)

\* s.strip(cs)
RECURSIVE StripChars(_, _)
StripChars(str, cs) ==
    IF str # "" /\ Contains(cs, Head(str)) THEN StripChars(Tail(str), cs)
    ELSE IF str # "" /\ Contains(cs, Char(str, Len(str)))
         THEN StripChars(SubSeq(str, 1, Len(str) - 1), cs)
    ELSE str

\* the words and phrases a match expression asks for
MatchPhrases(expr) ==
    LET pieces == Split(expr, " OR ")
    IN {StripChars(pieces[k], "()\"") : k \in DOMAIN pieces} \ {""}

\* the phrases of phs that occur, as whole words, in the indexed text of row r
PhrasesIn(phs, r) ==
    LET text == " " \o Lower(r.title) \o " "
    IN {ph \in phs : Contains(text, " " \o ph \o " ")}

\* courses_fts MATCH expr: the rows whose indexed text holds one of the phrases
FtsMatch(table, expr) ==
    LET phs == MatchPhrases(expr)
    IN {r \in table : PhrasesIn(phs, r) # {}}

\* the rows of a set as a list, by ascending key (keys differ)
OrderedBy(rows, key) ==
    [k \in 1..Cardinality(rows) |->
        CHOOSE r \in rows : Cardinality({o \in rows : key[o] < key[r]}) = k - 1]

Limit(q, n) == SubSeq(q, 1, IF n < Len(q) THEN n ELSE Len(q))

\* bm25(courses_fts): lower is better; ties fall in rowid order
Bm25Key(phs, r) == r.course_id - 10 * Cardinality(PhrasesIn(phs, r))

\* SELECT c.url, c.title, bm25(courses_fts) ... ORDER BY score LIMIT ?
RankedRows(table, expr, n) ==
    LET phs == MatchPhrases(expr)
        score == Table([r \in table |-> Bm25Key(phs, r)])
        q == Limit(OrderedBy(FtsMatch(table, expr), score), n)
    IN [k \in 1..Len(q) |-> <<q[k].url, q[k].title, score[q[k]]>>]

\* SELECT c.url, c.title, f.rowid ... LIMIT ?
UnrankedRows(table, expr, n) ==
    LET q == Limit(OrderedBy(FtsMatch(table, expr), Table([r \in table |-> r.course_id])), n)
    IN [k \in 1..Len(q) |-> <<q[k].url, q[k].title, q[k].course_id>>]

RankedFailureRaises == "raised"

\* where search goes when the ranked query raises sqlite3.OperationalError
AfterRankedFails == "fallback"

\* try: return list(con.execute(<ranked query>, (match, top)))
RankedQuery ==
    /\ spc = "ranked"
    /\ queries' = Append(queries, [sql |-> "ranked", match |-> match, limit |-> top])
    /\ IF bm25
       THEN /\ searchResult' = RankedRows(courses, match, top)
            /\ spc' = "returned"
       ELSE /\ searchResult' = searchResult
            /\ spc' = AfterRankedFails
    /\ UNCHANGED <<interests, top, vocab, bm25, todo, groups, match,
                   crawlVars, tableVars, urlVars, compareVars, cardVars>>

\* except sqlite3.OperationalError: return list(con.execute(<unranked query>, (match, top)))
FallbackQuery ==
    /\ spc = "fallback"
    /\ queries' = Append(queries, [sql |-> "unranked", match |-> match, limit |-> top])
    /\ searchResult' = UnrankedRows(courses, match, top)
    /\ spc' = "returned"
    /\ UNCHANGED <<interests, top, vocab, bm25, todo, groups, match,
                   crawlVars, tableVars, urlVars, compareVars, cardVars>>

(***************************************************************************)
(* SpecSearch: one call of search(con, interests, top).                    *)
(***************************************************************************)
TermRow(id, term) == [term_id |-> id, term |-> term]
SynonymRow(id, synonym) == [term_id |-> id, synonym |-> synonym]

Vocabs ==
    { [terms |-> {}, synonyms |-> {}],
      [terms |-> {TermRow(1, "ia")},
       synonyms |-> {SynonymRow(1, "inteligencia artificial")}],
      [terms |-> {TermRow(1, "IA"), TermRow(2, "Python"), TermRow(3, "Big Data")},
       synonyms |-> {SynonymRow(1, "Inteligencia Artificial"),
                     SynonymRow(1, " machine learning "),
                     SynonymRow(1, None), SynonymRow(1, "ia"),
                     SynonymRow(2, "py"), SynonymRow(3, ""),
                     SynonymRow(7, "huerfano")}] }

TermInputs == {"ia", " IA ", "", "  ", "big data"}

SearchCourse(id, title) ==
    [f \in {"course_id", "url"} \cup Fields |->
        IF f = "course_id" THEN id
        ELSE IF f = "url" THEN "https://ev.co/s" \o Char(Digits, id + 1)
        ELSE IF f = "title" THEN title
        ELSE IF f = "last_crawled_at" THEN id
        ELSE None]

SearchCourses ==
    { SearchCourse(1, "Historia"),
      SearchCourse(2, "Python y Big Data"),
      SearchCourse(3, "IA"),
      SearchCourse(4, "Inteligencia Artificial con Python"),
      SearchCourse(5, "Machine Learning e IA") }

InitSearch ==
    /\ interests \in UNION {[1..n -> TermInputs] : n \in 0..MaxTerms}
    /\ top \in 1..MaxTop
    /\ vocab \in Vocabs
    /\ bm25 \in BOOLEAN
    /\ todo = interests /\ groups = <<>> /\ match = "" /\ queries = <<>>
    /\ searchResult = <<>> /\ spc = "build"
    /\ courses = SearchCourses /\ nextId = 6 /\ upsertLog = <<>>
    /\ IdleCrawl /\ IdleUrl /\ IdleCompare /\ IdleCard

NextSearch ==
    \/ BuildGroup
    \/ BuildReturn
    \/ RankedQuery
    \/ FallbackQuery

SpecSearch == InitSearch /\ [][NextSearch]_vars

(***************************************************************************)
(* C9, C10: the match expression and the fallback query.                   *)
(***************************************************************************)
\* the interest terms of q that are not blank, trimmed, in their order
NonBlank(q) == SelectSeq([k \in DOMAIN q |-> Strip(q[k])], LAMBDA t : t # "")

\* the term and the synonyms the vocabulary v records for it, as they are indexed
MembersOf(v, t) ==
    {Lower(t)} \cup
    {Lower(Strip(y.synonym)) :
        y \in {x \in v.synonyms :
                /\ x.synonym \notin {None, ""}
                /\ \E r \in v.terms : r.term_id = x.term_id /\ Lower(r.term) = Lower(t)}}

\* g is "(" m1 OR m2 ... ")" with each member of members once, a phrase quoted
IsGroupOf(g, members) ==
    /\ Len(g) >= 2 /\ Char(g, 1) = "(" /\ Char(g, Len(g)) = ")"
    /\ LET inner == Split(SubSeq(g, 2, Len(g) - 1), " OR ")
       IN /\ Len(inner) = Cardinality(members)
          /\ {inner[k] : k \in DOMAIN inner}
                = {IF Contains(m, " ") THEN "\"" \o m \o "\"" ELSE m : m \in members}

\* the interest terms the loop of build_fts_query has gone through
Processed == SubSeq(interests, 1, Len(interests) - Len(todo))

\* C9: build_fts_query builds exactly one parenthesised OR-group per non-blank
\* interest term, holding the term and every synonym of it (a multi-word
\* phrase quoted), and joins the groups with OR; a blank term adds no group;
\* term "ia" with synonym "inteligencia artificial" gives
\* (ia OR "inteligencia artificial") up to member order; a list of blank
\* terms only gives the empty expression, and search then returns no rows
\* without running a query.
C9_OneGroupPerNonBlankTerm ==
    /\ Len(groups) = Len(NonBlank(Processed))
    /\ \A k \in DOMAIN groups :
            IsGroupOf(groups[k], MembersOf(vocab, NonBlank(Processed)[k]))
    /\ spc # "build" =>
            /\ todo = <<>>
            /\ match = Join(groups, " OR ")
    /\ (spc # "build" /\ NonBlank(interests) = <<>>) =>
            /\ match = ""
            /\ spc = "returned" /\ searchResult = <<>> /\ queries = <<>>
    /\ (spc # "build" /\ NonBlank(interests) # <<>>) => match # ""
    /\ (/\ spc # "build" /\ interests = <<"ia">>
        /\ vocab = [terms |-> {TermRow(1, "ia")},
                    synonyms |-> {SynonymRow(1, "inteligencia artificial")}]) =>
            match \in {"(ia OR \"inteligencia artificial\")",
                       "(\"inteligencia artificial\" OR ia)"}

\* a search has returned for a blank term followed by a term with two synonyms
C9_Witness ==
    /\ spc = "returned"
    /\ interests = <<"  ", " IA ">>
    /\ Cardinality(vocab.terms) = 3
    /\ match = "(\"machine learning\" OR ia OR \"inteligencia artificial\")"
    /\ searchResult # <<>>

\* C10: when the ranked (BM25) query fails because the engine lacks ranking
\* support, search does not fail: it runs the unranked fallback query with
\* the same match expression and limit and returns that query's rows.
C10_FallbackWhenRankingUnsupported ==
    /\ [][(spc = "ranked" /\ ~bm25) => spc' = "fallback"]_vars
    /\ [][spc = "fallback" =>
            /\ spc' = "returned"
            /\ searchResult' = UnrankedRows(courses, match, top)]_vars
    /\ []((spc = "returned" /\ ~bm25 /\ match # "") =>
            /\ queries = << [sql |-> "ranked", match |-> match, limit |-> top],
                            [sql |-> "unranked", match |-> match, limit |-> top] >>
            /\ searchResult = UnrankedRows(courses, match, top))
    /\ [](spc \in {"build", "ranked", "fallback", "returned"})

\* a search on an engine without ranking has returned the fallback query's rows
C10_Witness ==
    /\ spc = "returned" /\ ~bm25
    /\ Len(queries) = 2 /\ queries[2].sql = "unranked"
    /\ searchResult # <<>>

(***************************************************************************)
(* compare.py: _tfidf_cosine, compare_texts.                               *)
(***************************************************************************)
\* SPANISH_STOPWORDS
SPANISH_STOPWORDS ==
    {
      "a", "al", "algo", "algunas", "algunos", "ante", "antes", "aquel",
      "aquella", "aquellas", "aquellos", "aqui", "asi", "aun", "aunque",
      "bajo", "bien", "cada", "como", "con", "contra", "cual", "cuales",
      "cuando", "de", "del", "desde", "donde", "dos", "durante", "e", "el",
      "ella", "ellas", "ello", "ellos", "en", "entre", "era", "erais",
      "eramos", "eran", "eres", "es", "esa", "esas", "ese", "eso", "esos",
      "esta", "estaba", "estabais", "estabamos", "estaban", "estoy",
      "estas", "este", "esto", "estos", "fin", "fue", "fueron", "fuimos",
      "ha", "haber", "habia", "habiais", "habiamos", "habian", "habra",
      "habran", "habria", "habrian", "han", "hasta", "hay", "haya", "he",
      "hemos", "hizo", "la", "las", "le", "les", "lo", "los", "mas", "me",
      "mi", "mis", "mucho", "muy", "nada", "ni", "no", "nos", "nosotras",
      "nosotros", "nuestra", "nuestras", "nuestro", "nuestros", "o", "os",
      "otra", "otras", "otro", "otros", "para", "pero", "poco", "por",
      "porque", "que", "quien", "quienes", "se", "sea", "sean", "segun",
      "ser", "si", "siempre", "sin", "sobre", "sois", "solamente", "solo",
      "somos", "son", "soy", "su", "sus", "tal", "tambien", "tampoco", "te",
      "ti", "tiene", "tienen", "toda", "todas", "todavia", "todo", "todos",
      "tu", "tus", "tuya", "tuyo", "un", "una", "uno", "unos", "usted",
      "ustedes", "va", "vamos", "van", "vosotras", "vosotros", "y", "ya" }

\* the score is counted in units of 1/Scale, so Scale stands for 1.0
Scale == 10

\* smoothed idf, in tenths, of a word of both documents: ln(3/3) + 1
IdfShared == 10
\* smoothed idf, in tenths, of a word of one document only: ln(3/2) + 1
IdfSingle == 14

\* (texts[k] or "").strip()
TextOrEmpty(t) == IF t = None THEN "" ELSE Strip(t)

\* the analyzer of TfidfVectorizer: lower-cased words of two or more
\* characters that are not stop words, in their order
Tokens(text) ==
    LET words == Split(Lower(text), " ")
    IN SelectSeq(words, LAMBDA w : Len(w) >= 2 /\ w \notin SPANISH_STOPWORDS)

\* the words of a document, as a set
Words(doc) == {doc[k] : k \in DOMAIN doc}

\* term frequency of word w in a document
Tf(doc, w) == Cardinality({k \in DOMAIN doc : doc[k] = w})

\* tf * idf of word w in document doc, the other document being other
Weight(doc, other, w) ==
    Tf(doc, w) * (IF w \in Words(doc) /\ w \in Words(other) THEN IdfShared ELSE IdfSingle)

RECURSIVE SumOver(_, _)
SumOver(S, f) ==
    IF S = {} THEN 0
    ELSE LET x == CHOOSE y \in S : TRUE IN f[x] + SumOver(S \ {x}, f)

\* X[0] . X[1], |X[0]|^2 and |X[1]|^2 before normalisation
Dot(da, db) ==
    SumOver(Words(da) \cup Words(db),
            [w \in Words(da) \cup Words(db) |-> Weight(da, db, w) * Weight(db, da, w)])
NormSq(doc, other) ==
    SumOver(Words(doc), [w \in Words(doc) |-> Weight(doc, other, w) * Weight(doc, other, w)])

\* the cosine of the two rows, rounded down to a unit; 0 for a row of zeros
ExactCosine(da, db) ==
    LET d == Dot(da, db)
        n == NormSq(da, db) * NormSq(db, da)
    IN IF n = 0 THEN 0
       ELSE CHOOSE c \in 0..Scale :
                /\ c * c * n <= Scale * Scale * d * d
                /\ (c = Scale \/ (c + 1) * (c + 1) * n > Scale * Scale * d * d)

\* float(cosine_similarity(X[0], X[1])[0, 0]): the quotient is computed in
\* floating point, so it may miss the exact value by a rounding error and
\* exceed 1; a sum of zeros is exactly 0
FloatCosines(da, db) ==
    LET c == ExactCosine(da, db)
    IN IF Dot(da, db) = 0 THEN {0}
       ELSE {c, c + 1} \cup (IF c > 0 THEN {c - 1} ELSE {})

NoClamp(sim) == sim

\* if sim < 0: sim = 0.0; if sim > 1: sim = 1.0
Clamp(sim) == IF sim < 0 THEN 0 ELSE IF sim > Scale THEN Scale ELSE sim

Returned(score) == [raised |-> FALSE, score |-> score]

ValueErrorPropagates == [raised |-> TRUE, score |-> 0]

\* except ValueError: return 0.0
AfterValueError == Returned(0)

\* compare_texts(a, b) = _tfidf_cosine([a, b])
compare_texts ==
    /\ cmpResult = <<>>
    /\ LET a == TextOrEmpty(textA)
           b == TextOrEmpty(textB)
       IN IF a = "" /\ b = "" THEN cmpResult' = <<Returned(0)>>
          ELSE IF a = "" \/ b = "" THEN cmpResult' = <<Returned(0)>>
          ELSE IF Tokens(a) = <<>> /\ Tokens(b) = <<>>
               THEN cmpResult' = <<AfterValueError>>
          ELSE \E sim \in FloatCosines(Tokens(a), Tokens(b)) :
                  cmpResult' = <<Returned(Clamp(sim))>>
    /\ UNCHANGED <<textA, textB, crawlVars, tableVars, urlVars, searchVars, cardVars>>

Texts ==
    {None, "", "  ", "de la", "x y", " Curso de Python ", "python",
     "curso python python", "datos", "el curso de datos", "Python y datos"}

InitCompare ==
    /\ textA \in Texts /\ textB \in Texts /\ cmpResult = <<>>
    /\ courses = {} /\ nextId = 1 /\ upsertLog = <<>>
    /\ IdleCrawl /\ IdleUrl /\ IdleSearch /\ IdleCard

SpecCompare == InitCompare /\ [][compare_texts]_vars

\* None, empty or blank: what the guards of _tfidf_cosine take for empty
EmptyText(t) == t = None \/ \A k \in 1..Len(t) : Char(t, k) = " "

\* no word of the two texts survives the analyzer
EmptyVocabulary ==
    \A t \in {textA, textB} :
        \A w \in Words(Split(Lower(Strip(t)), " ")) :
            Len(w) < 2 \/ w \in SPANISH_STOPWORDS

\* C11: compare_texts(a, b) returns the score 0.0, never an error, when
\* both inputs are empty, when exactly one input is empty, or when
\* vectorization fails (empty vocabulary after stop-word removal); in every
\* other case the returned score lies between 0 and 1 inclusive.
C11_ZeroOrClamped ==
    cmpResult # <<>> =>
        /\ ~cmpResult[1].raised
        /\ (EmptyText(textA) \/ EmptyText(textB)) => cmpResult[1].score = 0
        /\ (~EmptyText(textA) /\ ~EmptyText(textB) /\ EmptyVocabulary)
              => cmpResult[1].score = 0
        /\ cmpResult[1].score \in 0..Scale

\* two texts of stop words only were compared and scored 0
C11_Witness ==
    /\ textA = "de la" /\ textB = "x y"
    /\ cmpResult = <<[raised |-> FALSE, score |-> 0]>>

(***************************************************************************)
(* C12..C14: the cards the walker accepts, the link it takes from a card,  *)
(* and the fingerprint it stores.                                          *)
(***************************************************************************)
\* the card has a type label whose lower-cased text holds "curso"
LabelHasCurso(card) ==
    /\ card.typeText # None
    /\ \E k \in 1..(Len(card.typeText) - 4) :
            Lower(SubSeq(card.typeText, k, k + 4)) = "curso"

\* the links of the course-labelled cards of a catalog page
LabelledLinks(page) ==
    {extract_course_link_from_card(page[k], START_URL) :
        k \in {j \in DOMAIN page : LabelHasCurso(page[j])}} \ {None}

\* the same, for every page of every catalog
LabelledLinksOf ==
    Table([c \in Catalogs |-> Table([k \in DOMAIN c |-> LabelledLinks(c[k])])])

\* C12: in every reachable state of the walker, every URL of the link set
\* was extracted from a card whose type label's lower-cased text contains
\* "curso"; a card without type label or with another label never adds a
\* link and never raises an error; adding a link that is already present
\* leaves the set unchanged.
C12_OnlyCourseCardsAddLinks ==
    /\ [](links \subseteq UNION {LabelledLinksOf[catalog][p] : p \in seen})
    /\ [][pc = "extract" =>
            /\ pc' \in {"try", "return"}
            /\ links \subseteq links'
            /\ links' \ links \subseteq LabelledLinksOf[catalog][rendered]
            /\ LabelledLinksOf[catalog][rendered] \subseteq links => links' = links]_vars

\* both pages of the mixed catalog were extracted: the cards without label,
\* and the links met twice, left two links in the set
C12_Witness ==
    /\ catalog = CatalogMixed /\ seen = {1, 2} /\ extractions = 2
    /\ Cardinality(links) = 2

(***************************************************************************)
(* SpecCard: one call of extract_course_link_from_card on an accepted card.*)
(***************************************************************************)
MaxAnchors == 2        \* a card has up to MaxAnchors anchors (SpecCard)

\* href attributes: missing, empty, blank, root-relative, padded relative
Hrefs == {None, "", " ", "/a", " b "}

AnchorInputs == {Anchor(inBody, href) : inBody \in BOOLEAN, href \in Hrefs}

InitCard ==
    /\ \E anchors \in UNION {[1..n -> AnchorInputs] : n \in 0..MaxAnchors} :
            card_el = Card("Curso", "Analitica", anchors)
    /\ cardLink = <<>>
    /\ courses = {} /\ nextId = 1 /\ upsertLog = <<>>
    /\ IdleCrawl /\ IdleUrl /\ IdleSearch /\ IdleCompare

\* if not is_course_card(card): continue; link = extract_course_link_from_card(...)
ExtractCall ==
    /\ cardLink = <<>>
    /\ is_course_card(card_el)
    /\ cardLink' = <<extract_course_link_from_card(card_el, START_URL)>>
    /\ UNCHANGED <<card_el, crawlVars, tableVars, urlVars, searchVars, compareVars>>

SpecCard == InitCard /\ [][ExtractCall]_vars

\* the positions of the anchors of the card, all of them and those of its body
AnchorsAt == DOMAIN card_el.anchors
BodyAnchorsAt == {k \in AnchorsAt : card_el.anchors[k].inBody}

\* the link anchor k gives: its href made absolute, None when it has no href
\* or a blank one
LinkOfAnchor(k) ==
    LET href == card_el.anchors[k].href
    IN IF href = None \/ Strip(href) = "" THEN None
       ELSE urljoin(START_URL, Strip(href))

\* C13 as stated: the link is that of the first anchor of the body block;
\* when the body block gives no link, that of the first anchor anywhere in
\* the card; only a card without any anchor yields no link.
C13_Original ==
    cardLink # <<>> =>
        /\ (BodyAnchorsAt # {} /\ LinkOfAnchor(Min(BodyAnchorsAt)) # None)
              => cardLink[1] = LinkOfAnchor(Min(BodyAnchorsAt))
        /\ (AnchorsAt # {} /\ (BodyAnchorsAt = {} \/ LinkOfAnchor(Min(BodyAnchorsAt)) = None))
              => cardLink[1] = LinkOfAnchor(Min(AnchorsAt))
        /\ cardLink[1] = None <=> AnchorsAt = {}

\* the positions of the anchors that carry an href attribute
HrefAnchorsAt == {k \in AnchorsAt : card_el.anchors[k].href # None}

\* C13 amended: the link is taken from the first anchor with an href
\* attribute inside the body block and, when the body block has no such
\* anchor, from the first anchor with an href attribute anywhere in the
\* card; a card without such an anchor yields no link, and so does a card
\* whose selected anchor has a blank href: no other anchor is tried.
C13_FirstHrefAnchorOrNone ==
    cardLink # <<>> =>
        LET body == HrefAnchorsAt \cap BodyAnchorsAt
        IN /\ body # {} => cardLink[1] = LinkOfAnchor(Min(body))
           /\ (body = {} /\ HrefAnchorsAt # {})
                 => cardLink[1] = LinkOfAnchor(Min(HrefAnchorsAt))
           /\ HrefAnchorsAt = {} => cardLink[1] = None

\* the body block has no anchor with an href and the link came from the
\* anchor outside it
C13_Witness ==
    /\ card_el.anchors = <<Anchor(TRUE, None), Anchor(FALSE, " b ")>>
    /\ cardLink = <<"https://educacionvirtual.javeriana.edu.co/b">>

\* C14: last_first_title is replaced by the current first-card title only
\* in an iteration whose selected-state wait and fingerprint wait both
\* succeeded; when the control is not found or a wait times out it is left
\* as it was; so the change test of the next iteration compares against the
\* page of the last successful advance, not against the page just extracted.
C14_FingerprintOnlyOnSuccess ==
    /\ [][ /\ (pc = "try" /\ tryOutcome' = "ok") =>
                last_first_title' = first_card_title_text(catalog[rendered'])
           /\ (pc = "try" /\ tryOutcome' \in Timeouts) =>
                last_first_title' = last_first_title
           /\ (pc \notin {"try", "load"}) => last_first_title' = last_first_title
           /\ (pc = "try" /\ tryOutcome' = "ok") =>
                first_card_title_text(catalog[rendered'])
                    # first_card_title_text(catalog[fingerprint_page])
           /\ (pc = "try" /\ tryOutcome' = "fingerprint_timeout") =>
                first_card_title_text(catalog[rendered'])
                    = first_card_title_text(catalog[fingerprint_page]) ]_vars
    /\ [](pc \in {"try", "extract", "return"} =>
            last_first_title = first_card_title_text(catalog[fingerprint_page]))

\* iteration 2 timed out with page 2 on screen and was extracted; iteration 3
\* starts with the fingerprint of page 1
C14_Witness ==
    /\ pc = "try" /\ i = 3 /\ catalog = CatalogThree
    /\ tryOutcome = "selected_timeout" /\ extractions = 2
    /\ rendered = 2 /\ fingerprint_page = 1
    /\ last_first_title = "Analitica"

====
